---- MODULE Spec2Model ----
(***************************************************************************)
(* NodeNest: the chat request handler (src/app/api/chat/route.ts) and the  *)
(* graph store (useFlowStore).                                             *)
(*                                                                         *)
(* Text is a sequence of one-character strings.  " " stands for any        *)
(* whitespace character (blank, newline), "a" for ordinary prose.          *)
(***************************************************************************)
EXTENDS Integers, Sequences, FiniteSets, TLC

VARIABLES
    chatReq,          \* the request being handled by POST /api/chat
    chatRes,          \* its response, Pending until the handler answers
    nodes,            \* store: Node[]
    edges,            \* store: Edge[]
    isLoading,        \* store: generateGraph in progress
    expandingNodeId,  \* store: the node being expanded, NoId for null
    pendingGen,       \* generateGraph calls awaiting generateTitle
    pendingExpand,    \* parentId of each expandNode call awaiting its fetch
    pendingImages,    \* newId of each image request awaiting its reply
    now,              \* Date.now()
    lastAction,       \* the action of the addNodesFromChat call that led to
                      \* this state, NoArg after any other operation
    currentSessionId, \* store: the session being edited, NoSession for null
    chatHistory,      \* store: ChatMessage[]
    storedSessions,   \* store: Record<string, SessionData>
    storage,          \* localStorage: the state kept under 'nodenest-storage'
    saved,            \* what the last saveSession under each id held
    lastCall,         \* the loadSession, saveSession, deleteSession, reload,
                      \* sendMessage or chat reply that led to this state,
                      \* NoCall after any other operation
    messages,         \* chat panel: the messages displayed
    chatLoading,      \* chat panel: isLoading, a chat request is awaited
    pendingChat,      \* the chat request awaiting its reply, NoRequest for
                      \* none
    timerDue          \* chat panel: the timer of the debounced
                      \* setChatHistory(messages) is set

chatVars == <<chatReq, chatRes>>
storeVars == <<nodes, edges, isLoading, expandingNodeId, pendingGen,
               pendingExpand, pendingImages, now, lastAction,
               currentSessionId, chatHistory, storedSessions, storage, saved,
               lastCall>>
panelVars == <<messages, chatLoading, pendingChat, timerDue>>
vars == <<chatReq, chatRes, nodes, edges, isLoading, expandingNodeId,
          pendingGen, pendingExpand, pendingImages, now, lastAction,
          currentSessionId, chatHistory, storedSessions, storage, saved,
          lastCall, messages, chatLoading, pendingChat, timerDue>>

(***************************************************************************)
(* Bounds                                                                  *)
(***************************************************************************)
\* the number of pieces a model reply is put together from
MaxPieces == 4
\* the nodes and the edges the store may hold
MaxNodes == 3
MaxEdges == 3
\* the last value of the clock
MaxClock == 1
\* the asynchronous calls of one kind in flight together
MaxPending == 1
\* the sessions storedSessions may hold
MaxSessions == 2
\* the messages the chat panel adds to a chat history
MaxChat == 1
\* the messages the chat panel displays: a message is sent while the list
\* has room for it and for its reply
MaxMessages == 3

(***************************************************************************)
(* JavaScript string primitives used by the handler                        *)
(***************************************************************************)
\* '---GRAPH_ACTION---' and '---QUICK_REPLIES---', shortened to three
\* characters each; like the originals they begin and end with the same dash
\* run and differ in the middle.
GraphMarker == <<"-", "G", "-">>
QuickMarker == <<"-", "Q", "-">>

IsWs(c) == c = " "

\* s.substring(a, b), 0-based, b exclusive
substring(s, a, b) == SubSeq(s, a + 1, b)

\* whether m occurs in s at 0-based index i
OccursAt(s, m, i) ==
    /\ i + Len(m) <= Len(s)
    /\ SubSeq(s, i + 1, i + Len(m)) = m

\* s.indexOf(m): the first 0-based index of m in s, -1 when there is none
indexOf(s, m) ==
    LET hits == {i \in 0..Len(s) : OccursAt(s, m, i)}
    IN  IF hits = {} THEN -1
        ELSE CHOOSE i \in hits : \A j \in hits : i <= j

\* s.lastIndexOf(m)
lastIndexOf(s, m) ==
    LET hits == {i \in 0..Len(s) : OccursAt(s, m, i)}
    IN  IF hits = {} THEN -1
        ELSE CHOOSE i \in hits : \A j \in hits : j <= i

\* s.includes(m)
includes(s, m) == indexOf(s, m) # -1

\* s.split(m) for a non-empty separator: the pieces between the successive
\* non-overlapping occurrences of m, left to right
RECURSIVE split(_, _)
split(s, m) ==
    LET i == indexOf(s, m)
    IN  IF i = -1 THEN <<s>>
        ELSE <<substring(s, 0, i)>> \o split(substring(s, i + Len(m), Len(s)), m)

\* arr[k] of a JavaScript array of strings, 0-based; a missing element
\* (undefined) is read as '', which is falsy like it
at(arr, k) == IF k + 1 <= Len(arr) THEN arr[k + 1] ELSE <<>>

\* s.trim()
trim(s) ==
    LET keep == {i \in 1..Len(s) : ~IsWs(s[i])}
    IN  IF keep = {} THEN <<>>
        ELSE SubSeq(s, CHOOSE i \in keep : \A j \in keep : i <= j,
                       CHOOSE i \in keep : \A j \in keep : j <= i)

\* graphSection.match(/\{[\s\S]*?\}/): from the first "{" to the first "}"
\* that follows it; NoMatch (a match is never empty) when there is none
NoMatch == <<>>

matchBraces(s) ==
    LET open == indexOf(s, <<"{">>)
    IN  IF open = -1 THEN NoMatch
        ELSE LET rest == substring(s, open, Len(s))
                 close == indexOf(rest, <<"}">>)
             IN  IF close = -1 THEN NoMatch
                 ELSE substring(rest, 0, close + 1)

(***************************************************************************)
(* JSON.parse, for the values that can be written with the characters of   *)
(* the model: strings without escapes, arrays and objects.  The result of  *)
(* a successful parse is kept as JSON.stringify writes it (no insignificant*)
(* whitespace), which is also how NextResponse.json sends it.              *)
(***************************************************************************)
Fail == [ok |-> FALSE, end |-> 0, out |-> <<>>]

\* the first position >= i (1-based) that holds no whitespace, Len(s)+1 if none
SkipWs(s, i) ==
    LET stops == {j \in i..Len(s) : ~IsWs(s[j])}
    IN  IF stops = {} THEN Len(s) + 1
        ELSE CHOOSE j \in stops : \A k \in stops : j <= k

\* a string literal starting at position i
ParseString(s, i) ==
    IF i > Len(s) \/ s[i] # "\"" THEN Fail
    ELSE LET closes == {j \in (i + 1)..Len(s) : s[j] = "\""}
         IN  IF closes = {} THEN Fail
             ELSE LET j == CHOOSE j \in closes : \A k \in closes : j <= k
                  IN  [ok |-> TRUE, end |-> j + 1, out |-> SubSeq(s, i, j)]

RECURSIVE ParseValue(_, _), ParseElements(_, _), ParseMembers(_, _)

\* value (ws "," ws value)*  starting at position i
ParseElements(s, i) ==
    LET More(v, r) ==
            IF ~r.ok THEN Fail
            ELSE [ok |-> TRUE, end |-> r.end, out |-> v.out \o <<",">> \o r.out]
        After(v) ==
            IF ~v.ok THEN Fail
            ELSE LET j == SkipWs(s, v.end)
                 IN  IF j <= Len(s) /\ s[j] = ","
                     THEN More(v, ParseElements(s, j + 1))
                     ELSE [ok |-> TRUE, end |-> j, out |-> v.out]
    IN  After(ParseValue(s, i))

\* string ws ":" value (ws "," ws member)*  starting at position i
ParseMembers(s, i) ==
    LET More(one, r) ==
            IF ~r.ok THEN Fail
            ELSE [ok |-> TRUE, end |-> r.end, out |-> one \o <<",">> \o r.out]
        After(k, v) ==
            IF ~v.ok THEN Fail
            ELSE LET j == SkipWs(s, v.end)
                     one == k.out \o <<":">> \o v.out
                 IN  IF j <= Len(s) /\ s[j] = ","
                     THEN More(one, ParseMembers(s, j + 1))
                     ELSE [ok |-> TRUE, end |-> j, out |-> one]
        k == ParseString(s, SkipWs(s, i))
    IN  IF ~k.ok THEN Fail
        ELSE LET c == SkipWs(s, k.end)
             IN  IF c > Len(s) \/ s[c] # ":" THEN Fail
                 ELSE After(k, ParseValue(s, c + 1))

\* a JSON value starting at or after position i; end is the position after it
ParseValue(s, i) ==
    LET j == SkipWs(s, i)
        \* the items r between the brackets bra and ket
        Closed(bra, r, ket) ==
            IF r.ok /\ r.end <= Len(s) /\ s[r.end] = ket
            THEN [ok |-> TRUE, end |-> r.end + 1,
                  out |-> <<bra>> \o r.out \o <<ket>>]
            ELSE Fail
    IN  IF j > Len(s) THEN Fail
        ELSE IF s[j] = "\"" THEN ParseString(s, j)
        ELSE IF s[j] = "[" THEN
            LET k == SkipWs(s, j + 1)
            IN  IF k <= Len(s) /\ s[k] = "]"
                THEN [ok |-> TRUE, end |-> k + 1, out |-> <<"[", "]">>]
                ELSE Closed("[", ParseElements(s, k), "]")
        ELSE IF s[j] = "{" THEN
            LET k == SkipWs(s, j + 1)
            IN  IF k <= Len(s) /\ s[k] = "}"
                THEN [ok |-> TRUE, end |-> k + 1, out |-> <<"{", "}">>]
                ELSE Closed("{", ParseMembers(s, k), "}")
        ELSE Fail

\* JSON.parse(text): [ok |-> TRUE, out |-> value] or [ok |-> FALSE] (it throws)
JSONparse(text) ==
    LET Whole(r) ==
            IF r.ok /\ SkipWs(text, r.end) > Len(text)
            THEN [ok |-> TRUE, out |-> r.out]
            ELSE [ok |-> FALSE, out |-> <<>>]
    IN  Whole(ParseValue(text, 1))

\* quickReplies = [] as it is sent; graphAction = null is the empty text,
\* which no JSON value is written as
EmptyArray == <<"[", "]">>
NoAction == <<>>

(***************************************************************************)
(* POST /api/chat: parsing the model's reply                               *)
(***************************************************************************)
\* JSON.parse(text) without a catch around it: a throw leaves the handler's
\* outer try block
tryParseUncaught(text, kept) ==
    LET Caught(p) ==
            IF p.ok THEN [threw |-> FALSE, val |-> p.out]
            ELSE [threw |-> TRUE, val |-> kept]
    IN  Caught(JSONparse(text))

\* try { v = JSON.parse(text) } catch (e) { console.error(...) }: on a throw
\* the variable keeps the value it had
tryParse(text, kept) ==
    LET Caught(p) ==
            IF p.ok THEN [threw |-> FALSE, val |-> p.out]
            ELSE [threw |-> FALSE, val |-> kept]
    IN  Caught(JSONparse(text))

\* the text handed to JSON.parse for the suggestions: from the first "[" to
\* the last "]" of the section, NoMatch when the test on the indices fails
quickRepliesCandidate(qrSection) ==
    LET startIdx == indexOf(qrSection, <<"[">>)
        endIdx == lastIndexOf(qrSection, <<"]">>)
    IN  IF startIdx # -1 /\ endIdx > startIdx
        THEN substring(qrSection, startIdx, endIdx + 1)
        ELSE NoMatch

\* if (qrSection) { try { ... quickReplies = JSON.parse(...) } catch ... }
extractQuickReplies(qrSection) ==
    IF qrSection = <<>> THEN [threw |-> FALSE, val |-> EmptyArray]
    ELSE LET cand == quickRepliesCandidate(qrSection)
         IN  IF cand = NoMatch THEN [threw |-> FALSE, val |-> EmptyArray]
             ELSE tryParse(cand, EmptyArray)

\* the part of afterGraph the action is looked for in
graphSectionOf(afterGraph) ==
    LET qrIndex == indexOf(afterGraph, QuickMarker)
    IN  IF qrIndex > -1 THEN substring(afterGraph, 0, qrIndex) ELSE afterGraph

\* try { ... jsonMatch = graphSection.match(...); if (jsonMatch) graphAction =
\* JSON.parse(jsonMatch[0]) } catch ...
extractGraphAction(afterGraph) ==
    LET jsonMatch == matchBraces(graphSectionOf(afterGraph))
    IN  IF jsonMatch = NoMatch THEN [threw |-> FALSE, val |-> NoAction]
        ELSE tryParse(jsonMatch, NoAction)

\* the three values the handler has after parsing; a throw of either JSON.parse
\* leaves the try block
Parsed(text, ga, qr) ==
    [responseText |-> text, graphAction |-> ga.val, quickReplies |-> qr.val,
     threw |-> qr.threw \/ ga.threw]

Kept(val) == [threw |-> FALSE, val |-> val]

\* the parsing without the tests of lines 175 and 210: the sections are looked
\* for whether or not the reply holds the graph-action marker
ParseReplyUnguarded(originalText) ==
    Parsed(trim(at(split(originalText, GraphMarker), 0)),
           extractGraphAction(originalText),
           extractQuickReplies(
               IF includes(originalText, QuickMarker)
               THEN at(split(originalText, QuickMarker), 1)
               ELSE originalText))

\* lines 168-226: responseText, graphAction and quickReplies of a reply
ParseReply(originalText) ==
    IF includes(originalText, GraphMarker) THEN
        LET graphSplit == split(originalText, GraphMarker)
            afterGraph == at(graphSplit, 1)
        IN  Parsed(trim(at(graphSplit, 0)),
                   extractGraphAction(afterGraph),
                   IF includes(afterGraph, QuickMarker)
                   THEN extractQuickReplies(at(split(afterGraph, QuickMarker), 1))
                   ELSE Kept(EmptyArray))
    ELSE IF includes(originalText, QuickMarker) THEN
        LET qrSplit == split(originalText, QuickMarker)
        IN  Parsed(trim(at(qrSplit, 0)), Kept(NoAction),
                   extractQuickReplies(at(qrSplit, 1)))
    ELSE Parsed(originalText, Kept(NoAction), Kept(EmptyArray))

\* no response yet
Pending ==
    [status |-> 0, body |-> "pending", response |-> <<>>,
     graphAction |-> NoAction, quickReplies |-> EmptyArray]

ErrorResponse(code) ==
    [status |-> code, body |-> "error", response |-> <<>>,
     graphAction |-> NoAction, quickReplies |-> EmptyArray]

\* lines 235-243: the parsed reply, or 500 when the try block was left
Answer(parsed) ==
    IF parsed.threw THEN ErrorResponse(500)
    ELSE [status |-> 200, body |-> "message",
          response |-> parsed.responseText,
          graphAction |-> parsed.graphAction,
          quickReplies |-> parsed.quickReplies]

\* the handler: 401 without an API key, 500 when anything in the try block
\* throws, else the parsed reply
Respond(req) ==
    IF ~req.apiKey THEN ErrorResponse(401)
    ELSE IF req.modelCall = "throws" THEN ErrorResponse(500)
    ELSE Answer(ParseReply(req.reply))

(***************************************************************************)
(* The graph store (useFlowStore): nodes, edges and the layout pass        *)
(***************************************************************************)
\* An id is a record: 'root', `node-chat-${t}` or `node-${t}-${i}`.
RootId == [kind |-> "root", t |-> 0, i |-> 0]
NoId == [kind |-> "none", t |-> 0, i |-> 0]
ChatId(t) == [kind |-> "node-chat", t |-> t, i |-> 0]
GenId(t, i) == [kind |-> "node", t |-> t, i |-> i]

\* the numbers of getLayoutedElements
nodesep == 100
ranksep == 180
marginx == 100
marginy == 100
NodeWidth == 400
ImageHeight == 350
PlainHeight == 200

\* const hasImage = node.data?.imageUrl || node.data?.imageLoading
hasImage(n) == n.imageUrl \/ n.imageLoading

\* a sequence without its repeated elements, first occurrences kept
RECURSIVE Dedup(_)
Dedup(q) ==
    IF q = <<>> THEN <<>>
    ELSE LET front == Dedup(SubSeq(q, 1, Len(q) - 1))
             x == q[Len(q)]
         IN  IF \E k \in 1..Len(front) : front[k] = x THEN front
             ELSE Append(front, x)

RECURSIVE Flatten(_)
Flatten(qq) == IF qq = <<>> THEN <<>> ELSE Head(qq) \o Flatten(Tail(qq))

Range(q) == {q[k] : k \in 1..Len(q)}

RECURSIVE SumSeq(_)
SumSeq(q) == IF q = <<>> THEN 0 ELSE Head(q) + SumSeq(Tail(q))

MaxOf(S) == IF S = {} THEN 0 ELSE CHOOSE m \in S : \A k \in S : k <= m
MinOf(S) == IF S = {} THEN 0 ELSE CHOOSE m \in S : \A k \in S : m <= k

\* The graphlib graph built by lines 62-73.  setNode(id, box) once per store
\* node (a repeated id keeps its place and takes the last box); setEdge(v, w)
\* adds v and w as nodes without a box when the graph does not hold them, and
\* a repeated (v, w) is one edge.
GraphNodes(ns, es) ==
    Dedup([k \in 1..Len(ns) |-> ns[k].id]
          \o Flatten([k \in 1..Len(es) |-> <<es[k].source, es[k].target>>]))

GraphEdges(es) == Dedup([k \in 1..Len(es) |-> <<es[k].source, es[k].target>>])

\* the box of graph node v; dagre reads a node without a box as 0 by 0
BoxOf(ns, v) ==
    LET held == {k \in 1..Len(ns) : ns[k].id = v}
    IN  IF held = {} THEN [width |-> 0, height |-> 0]
        ELSE [width |-> NodeWidth,
              height |-> IF hasImage(ns[MaxOf(held)]) THEN ImageHeight
                         ELSE PlainHeight]

(***************************************************************************)
(* dagre.layout (line 75).  The library is not part of the repository; it  *)
(* is modelled phase by phase:                                             *)
(*   acyclic  - self loops are set aside, the edges a depth-first search   *)
(*              finds pointing back into its stack are reversed;           *)
(*   rank     - the ranking with every edge spanning at least one rank     *)
(*              that makes the total edge length least, kept as high as    *)
(*              possible (what network simplex settles on for the graphs   *)
(*              of the model);                                             *)
(*   order    - within a rank, the order a depth-first search from the     *)
(*              nodes by rank first visits them;                           *)
(*   position - a rank is as high as its tallest box and ranksep below the *)
(*              rank above; the boxes of a rank stand side by side,        *)
(*              nodesep apart; the drawing is moved to the margins.        *)
(* The horizontal alignment of dagre (which centres blocks of nodes over   *)
(* their neighbours) is not modelled: the order and the separation are.    *)
(***************************************************************************)
\* the (v, w) of E that leave v, in insertion order
OutEdges(E, v) == SelectSeq(E, LAMBDA e : e[1] = v)

\* dfsFAS: st = [visited, fas]; stack is the set of nodes being visited
RECURSIVE FasVisit(_, _, _, _), FasEdges(_, _, _, _)
FasVisit(E, v, stack, st) ==
    IF v \in st.visited THEN st
    ELSE FasEdges(E, OutEdges(E, v), stack \cup {v},
                  [st EXCEPT !.visited = @ \cup {v}])

FasEdges(E, out, stack, st) ==
    IF out = <<>> THEN st
    ELSE LET e == Head(out)
         IN  IF e[2] \in stack
             THEN FasEdges(E, Tail(out), stack, [st EXCEPT !.fas = @ \cup {e}])
             ELSE FasEdges(E, Tail(out), stack, FasVisit(E, e[2], stack, st))

RECURSIVE FasAll(_, _, _)
FasAll(E, V, st) ==
    IF V = <<>> THEN st
    ELSE FasAll(E, Tail(V), FasVisit(E, Head(V), {}, st))

\* the edges ranked: no self loops, the feedback edges reversed
Acyclic(V, E) ==
    LET plain == SelectSeq(E, LAMBDA e : e[1] # e[2])
        fas == FasAll(plain, V, [visited |-> {}, fas |-> {}]).fas
    IN  [k \in 1..Len(plain) |->
            IF plain[k] \in fas THEN <<plain[k][2], plain[k][1]>>
            ELSE plain[k]]

\* the longest path to v from a node without incoming edge
RECURSIVE LongestPath(_, _)
LongestPath(D, v) ==
    LET preds == {D[k][1] : k \in {j \in 1..Len(D) : D[j][2] = v}}
    IN  IF preds = {} THEN 0
        ELSE 1 + MaxOf({LongestPath(D, u) : u \in preds})

\* lower a set of nodes by one rank while that shortens the edges
RECURSIVE Tighten(_, _, _)
Tighten(V, D, r) ==
    LET Feasible(S) ==
            \A k \in 1..Len(D) :
                (D[k][1] \in S /\ D[k][2] \notin S) => r[D[k][2]] - r[D[k][1]] >= 2
        Gain(S) ==
            Cardinality({k \in 1..Len(D) : D[k][1] \in S /\ D[k][2] \notin S})
            - Cardinality({k \in 1..Len(D) : D[k][1] \notin S /\ D[k][2] \in S})
        cand == {S \in SUBSET Range(V) : Feasible(S) /\ Gain(S) > 0}
    IN  IF cand = {} THEN r
        ELSE LET top == MaxOf({Gain(S) : S \in cand})
                 best == {S \in cand : Gain(S) = top}
                 S == CHOOSE S \in best :
                        \A T \in best : Cardinality(S) <= Cardinality(T)
             IN  Tighten(V, D, [v \in Range(V) |->
                                   IF v \in S THEN r[v] + 1 ELSE r[v]])

RankOf(V, D) ==
    LET Normalized(r) ==
            LET low == MinOf({r[v] : v \in Range(V)})
            IN  [v \in Range(V) |-> r[v] - low]
    IN  Normalized(Tighten(V, D, [v \in Range(V) |-> LongestPath(D, v)]))

\* initOrder: depth-first from the nodes sorted by rank, successors in the
\* order their edges were added; seen is the visiting order so far
RECURSIVE OrderVisit(_, _, _), OrderEach(_, _, _)
OrderVisit(D, v, seen) ==
    IF v \in Range(seen) THEN seen
    ELSE OrderEach(D, [k \in 1..Len(OutEdges(D, v)) |-> OutEdges(D, v)[k][2]],
                   Append(seen, v))

OrderEach(D, vs, seen) ==
    IF vs = <<>> THEN seen
    ELSE OrderEach(D, Tail(vs), OrderVisit(D, Head(vs), seen))

InitOrder(V, D, r) ==
    LET top == MaxOf({r[v] : v \in Range(V)})
        byRank == Flatten([k \in 1..(top + 1) |->
                              SelectSeq(V, LAMBDA v : r[v] = k - 1)])
    IN  OrderEach(D, byRank, <<>>)

\* position: the centre (x, y) of every graph node, given the rank r of
\* each and the order within the ranks
Position(ns, V, r, order) ==
    LET top == MaxOf({r[v] : v \in Range(V)})
        Row(k) == SelectSeq(order, LAMBDA v : r[v] = k)
        RowHeight(k) == MaxOf({BoxOf(ns, v).height : v \in Range(Row(k))})
        Place(v) ==
            CHOOSE j \in 1..Len(Row(r[v])) : Row(r[v])[j] = v
        X0(v) ==
            SumSeq([j \in 1..(Place(v) - 1) |->
                       BoxOf(ns, Row(r[v])[j]).width + nodesep])
            + BoxOf(ns, v).width \div 2
        Y0(v) ==
            SumSeq([k \in 1..r[v] |-> RowHeight(k - 1) + ranksep])
            + RowHeight(r[v]) \div 2
        minX == MinOf({X0(v) - BoxOf(ns, v).width \div 2 : v \in Range(V)})
        minY == MinOf({Y0(v) - BoxOf(ns, v).height \div 2 : v \in Range(V)})
    IN  [v \in Range(V) |->
            [x |-> X0(v) - minX + marginx,
             y |-> Y0(v) - minY + marginy,
             rank |-> r[v]]]

\* dagre.layout(g): acyclic, rank, order, position
dagreLayout(ns, es) ==
    LET Ordered(V, D, r) == Position(ns, V, r, InitOrder(V, D, r))
        Ranked(V, D) == Ordered(V, D, RankOf(V, D))
        Built(V, E) == Ranked(V, Acyclic(V, E))
    IN  Built(GraphNodes(ns, es), GraphEdges(es))

\* lines 48-90: every node with the position of its box's top left corner
getLayoutedElements(ns, es) ==
    LET Moved(g) ==
            [k \in 1..Len(ns) |->
                [ns[k] EXCEPT
                    !.x = g[ns[k].id].x - 200,
                    !.y = g[ns[k].id].y
                            - (IF hasImage(ns[k]) THEN 175 ELSE 100)]]
    IN  [nodes |-> Moved(dagreLayout(ns, es)), edges |-> es]

(***************************************************************************)
(* The store's state and operations                                        *)
(***************************************************************************)
Lower(c) == IF c = "A" THEN "a" ELSE IF c = "B" THEN "b" ELSE c
toLowerCase(str) == [k \in 1..Len(str) |-> Lower(str[k])]

\* the labels given to nodes, and the parentLabel of an action ('' and a
\* missing parentLabel are both falsy)
Labels == {<<"A", "b">>}
ParentLabels == {<<>>, <<"a">>, <<"b">>, <<"z">>}
\* the titles generateTitle gives
Titles == {<<"b">>, <<"A", "b">>}

\* what lastAction keeps of an action: its type and its parentLabel
NoArg == [type |-> "", parentLabel |-> <<>>]
KeptOf(action) == [type |-> action.type, parentLabel |-> action.parentLabel]

Actions ==
    [type : {"add_node"}, label : Labels, parentLabel : ParentLabels,
     imagePrompt : BOOLEAN]
    \cup {[type |-> "highlight", label |-> <<"b">>, parentLabel |-> <<>>,
           imagePrompt |-> FALSE]}

\* the id of a node that the store does not hold
MissingId == [kind |-> "gone", t |-> 0, i |-> 0]

\* the children /api/generate-graph may return for expandNode
ExpandReplies == {<<>>, <<<<"b">>>>, <<<<"A", "b">>, <<"b">>>>}

\* the parent taken to be the last node when the label resolves to none (the
\* chaining that lines 278-282 are written to prevent)
parentIndexLastNode(ns, parentLabel) ==
    LET found == IF parentLabel # <<>>
                 THEN MinOf({k \in 1..Len(ns) :
                        includes(toLowerCase(ns[k].label),
                                 toLowerCase(parentLabel))})
                 ELSE 0
    IN  IF found # 0 THEN found ELSE Len(ns)

\* lines 270-285: the index of the node the new node is attached to, 0 when
\* the store holds no node; find() gives the first node that passes its test
parentIndex(ns, parentLabel) ==
    LET rootNode == MinOf({k \in 1..Len(ns) : ns[k].isRoot})
        found == IF parentLabel # <<>>
                 THEN MinOf({k \in 1..Len(ns) :
                        includes(toLowerCase(ns[k].label),
                                 toLowerCase(parentLabel))})
                 ELSE 0
    IN  IF found # 0 THEN found
        ELSE IF rootNode # 0 THEN rootNode
        ELSE IF Len(ns) > 0 THEN 1
        ELSE 0

\* the nodes and edges of an add_node action with the new edge alone in place
\* of [...edges, newEdge]
addedFromChatDroppingEdges(ns, es, action, p, t) ==
    LET newId == ChatId(t)
        newNode == [id |-> newId, label |-> action.label, isRoot |-> FALSE,
                    imageUrl |-> FALSE, imageLoading |-> action.imagePrompt,
                    x |-> 0, y |-> 0]
        newEdge == [kind |-> "e-chat", source |-> ns[p].id, target |-> newId]
    IN  getLayoutedElements(Append(ns, newNode), <<newEdge>>)

\* lines 287-320: the nodes and edges set by an add_node action whose parent
\* is ns[p], at clock value t
addedFromChat(ns, es, action, p, t) ==
    LET newId == ChatId(t)
        newNode == [id |-> newId, label |-> action.label, isRoot |-> FALSE,
                    imageUrl |-> FALSE, imageLoading |-> action.imagePrompt,
                    x |-> 0, y |-> 0]
        newEdge == [kind |-> "e-chat", source |-> ns[p].id, target |-> newId]
    IN  getLayoutedElements(Append(ns, newNode), Append(es, newEdge))

\* set({ nodes: layoutedNodes, edges: layoutedEdges })
setLayouted(layouted) ==
    /\ nodes' = layouted.nodes
    /\ edges' = layouted.edges

(***************************************************************************)
(* Sessions and the persist middleware                                     *)
(***************************************************************************)
\* currentSessionId: null
NoSession == 0
\* the ids crypto.randomUUID() gives
SessionIds == 1..MaxSessions

\* the first message of a new session (lines 165 and 365) and of a new graph
\* (lines 191-194)
Greeting == [role |-> "model", text |-> <<"H", "i">>]
GreatChoice(displayTitle) == [role |-> "model", text |-> <<"G">> \o displayTitle]
\* a message typed into the chat panel
UserMessage == [role |-> "user", text |-> <<"u">>]

NoCall == [op |-> "", id |-> NoSession]

\* no value under 'nodenest-storage'
NoEntry == [empty |-> TRUE]

\* the whole state in place of the stored sessions alone
partializeWhole(state) == state

\* line 435: partialize: (state) => ({ storedSessions: state.storedSessions })
partialize(state) == [storedSessions |-> state.storedSessions]

\* persist: every set() writes the partialized state to localStorage
persist ==
    storage' = partialize([nodes |-> nodes',
                           edges |-> edges',
                           currentSessionId |-> currentSessionId',
                           chatHistory |-> chatHistory',
                           storedSessions |-> storedSessions'])

\* persist, on loading the page: the value of a field of the stored state,
\* and the initial value of a field the stored state does not hold
rehydrated(field, initial) ==
    IF field \in DOMAIN storage THEN storage[field] ELSE initial

\* no chat request in flight
NoRequest == [sent |-> FALSE, switched |-> FALSE]

\* ChatPanel.tsx lines 34-36: the test of the effect that follows the store's
\* chatHistory: the lengths differ, or the texts of the last messages do
externalChange(history, shown) ==
    \/ Len(history) # Len(shown)
    \/ /\ Len(history) > 0
       /\ Len(shown) > 0
       /\ history[Len(history)].text # shown[Len(shown)].text

\* the chat panel after an operation that does not set chatHistory: no
\* effect runs
panelKept == UNCHANGED panelVars

\* the chat panel after a set() of chatHistory: the effect of lines 32-39
\* takes the store's list when its test passes, and the effect of lines
\* 42-52 sets the timer when the displayed list changed.  switch: the
\* operation makes another session the current one, which a chat request in
\* flight records.
panelSynced(switch) ==
    /\ messages' = IF externalChange(chatHistory', messages)
                   THEN chatHistory'
                   ELSE messages
    /\ timerDue' = (timerDue \/ messages' # messages)
    /\ pendingChat' = IF switch /\ pendingChat.sent
                      THEN [pendingChat EXCEPT !.switched = TRUE]
                      ELSE pendingChat
    /\ UNCHANGED chatLoading

\* the store and localStorage as an operation that calls no set() leaves them
storeVarsHeld ==
    <<nodes, edges, isLoading, expandingNodeId, pendingGen, pendingExpand,
      pendingImages, now, currentSessionId, chatHistory, storedSessions,
      storage, saved>>

\* an operation that sets no field of the sessions
sessionKept ==
    /\ UNCHANGED <<currentSessionId, chatHistory, storedSessions, saved>>
    /\ lastCall' = NoCall
    /\ panelKept
    /\ persist

\* x mapped to v and nothing else
PutAlone(f, x, v) == [y \in {x} |-> v]

\* f with x mapped to v
Put(f, x, v) == [y \in DOMAIN f \cup {x} |-> IF y = x THEN v ELSE f[y]]
\* f without any of its entries
WithoutAll(f, x) == [y \in {} |-> f[y]]

\* f without x
Without(f, x) == [y \in DOMAIN f \ {x} |-> f[y]]
\* storedSessions: {}
NoSessions == [y \in {} |-> NoCall]

\* a session saved without the chat transcript
SessionDataWithoutChat(id, title, ns, es, ch, t) ==
    [id |-> id, title |-> title, nodes |-> ns, edges |-> es,
     chatHistory |-> <<>>, updatedAt |-> t]

\* lines 391-398: const session: SessionData = { ... }
SessionData(id, title, ns, es, ch, t) ==
    [id |-> id, title |-> title, nodes |-> ns, edges |-> es,
     chatHistory |-> ch, updatedAt |-> t]

StoreInit ==
    /\ nodes = <<>>
    /\ edges = <<>>
    /\ isLoading = FALSE
    /\ expandingNodeId = NoId
    /\ pendingGen = 0
    /\ pendingExpand = <<>>
    /\ pendingImages = <<>>
    /\ now = 0
    /\ lastAction = NoArg
    /\ currentSessionId = NoSession
    /\ chatHistory = <<Greeting>>
    /\ storedSessions = NoSessions
    /\ storage = NoEntry
    /\ saved = NoSessions
    /\ lastCall = NoCall

\* ChatPanel.tsx lines 18-29: the panel as mounted
PanelInit ==
    /\ messages = chatHistory
    /\ chatLoading = FALSE
    /\ pendingChat = NoRequest
    /\ timerDue = FALSE

\* generateGraph up to its await of generateTitle
generateGraphStart ==
    /\ UNCHANGED chatVars
    /\ pendingGen < MaxPending
    /\ isLoading' = TRUE
    /\ pendingGen' = pendingGen + 1
    /\ lastAction' = NoArg
    /\ UNCHANGED <<nodes, edges, expandingNodeId, pendingExpand,
                   pendingImages, now>>
    /\ sessionKept

\* generateGraph from the title on (generateTitle never rejects)
generateGraph(displayTitle) ==
    /\ UNCHANGED chatVars
    /\ pendingGen > 0
    /\ pendingGen' = pendingGen - 1
    /\ nodes' = <<[id |-> RootId, label |-> displayTitle, isRoot |-> TRUE,
                   imageUrl |-> FALSE, imageLoading |-> FALSE,
                   x |-> 0, y |-> 0]>>
    /\ edges' = <<>>
    /\ isLoading' = FALSE
    /\ lastAction' = NoArg
    /\ UNCHANGED <<expandingNodeId, pendingExpand, pendingImages, now>>
    /\ currentSessionId' = NoSession
    /\ chatHistory' = <<GreatChoice(displayTitle)>>
    /\ lastCall' = NoCall
    /\ UNCHANGED <<storedSessions, saved>>
    /\ panelSynced(TRUE)
    /\ persist

\* expandNode up to its await of fetch; without the parent it ends at once
expandNodeStart(parentId) ==
    /\ UNCHANGED chatVars
    /\ IF \E k \in 1..Len(nodes) : nodes[k].id = parentId
       THEN /\ Len(pendingExpand) < MaxPending
            /\ expandingNodeId' = parentId
            /\ pendingExpand' = Append(pendingExpand, parentId)
            /\ lastAction' = NoArg
       ELSE /\ expandingNodeId' = NoId
            /\ pendingExpand' = pendingExpand
            /\ lastAction' = NoArg
    /\ UNCHANGED <<nodes, edges, isLoading, pendingGen, pendingImages, now>>
    /\ sessionKept

\* lines 222-254: the nodes and edges set when data.nodes is not empty
expanded(ns, es, parentId, children, t) ==
    LET newNodes == [k \in 1..Len(children) |->
                        [id |-> GenId(t, k - 1), label |-> children[k],
                         isRoot |-> FALSE, imageUrl |-> FALSE,
                         imageLoading |-> FALSE, x |-> 0, y |-> 0]]
        newEdges == [k \in 1..Len(children) |->
                        [kind |-> "e", source |-> parentId,
                         target |-> newNodes[k].id]]
    IN  getLayoutedElements(ns \o newNodes, es \o newEdges)

\* expandNode from the reply of call c on: children is data.nodes, failed a
\* rejected fetch or a body that is not JSON
expandNodeReply(c, children, failed, t) ==
    /\ UNCHANGED chatVars
    /\ c \in 1..Len(pendingExpand)
    /\ pendingExpand' = SubSeq(pendingExpand, 1, c - 1)
                        \o SubSeq(pendingExpand, c + 1, Len(pendingExpand))
    /\ expandingNodeId' = NoId
    /\ IF ~failed /\ Len(children) > 0
       THEN /\ Len(nodes) + Len(children) <= MaxNodes
            /\ t >= now
            /\ now' = t
            /\ setLayouted(expanded(nodes, edges, pendingExpand[c], children, t))
            /\ lastAction' = NoArg
       ELSE /\ t = now
            /\ UNCHANGED <<nodes, edges, now>>
            /\ lastAction' = NoArg
    /\ UNCHANGED <<isLoading, pendingGen, pendingImages>>
    /\ sessionKept

\* addNodesFromChat(action) at clock value t, up to the image request: what
\* the call does to the store
addNodesFromChatCall(action, t) ==
    LET p == parentIndex(nodes, action.parentLabel)
    IN  /\ lastAction' = KeptOf(action)
        /\ IF action.type # "add_node" \/ p = 0
           THEN /\ t = now
                /\ UNCHANGED <<nodes, edges, pendingImages, now>>
           ELSE /\ Len(nodes) < MaxNodes
                /\ t >= now
                /\ now' = t
                /\ setLayouted(addedFromChat(nodes, edges, action, p, t))
                /\ IF action.imagePrompt
                   THEN /\ Len(pendingImages) < MaxPending
                        /\ pendingImages' = Append(pendingImages, ChatId(t))
                   ELSE pendingImages' = pendingImages
        /\ UNCHANGED <<isLoading, expandingNodeId, pendingGen, pendingExpand>>
        /\ UNCHANGED <<currentSessionId, chatHistory, storedSessions, saved>>
        /\ IF action.type # "add_node" \/ p = 0
           THEN UNCHANGED storage
           ELSE persist

\* addNodesFromChat(action) called with the chat panel at rest
addNodesFromChat(action, t) ==
    /\ UNCHANGED chatVars
    /\ addNodesFromChatCall(action, t)
    /\ lastCall' = NoCall
    /\ panelKept

\* lines 329-352: the callbacks of image request c; outcome is "url" (a body
\* with imageUrl), "nourl" (a body without) or "failed"
imageReply(c, outcome) ==
    /\ UNCHANGED chatVars
    /\ c \in 1..Len(pendingImages)
    /\ pendingImages' = SubSeq(pendingImages, 1, c - 1)
                        \o SubSeq(pendingImages, c + 1, Len(pendingImages))
    /\ nodes' = [k \in 1..Len(nodes) |->
                    IF nodes[k].id # pendingImages[c] \/ outcome = "nourl"
                    THEN nodes[k]
                    ELSE IF outcome = "url"
                    THEN [nodes[k] EXCEPT !.imageUrl = TRUE,
                                          !.imageLoading = FALSE]
                    ELSE [nodes[k] EXCEPT !.imageLoading = FALSE]]
    /\ lastAction' = NoArg
    /\ UNCHANGED <<edges, isLoading, expandingNodeId, pendingGen,
                   pendingExpand, now>>
    /\ UNCHANGED <<currentSessionId, chatHistory, storedSessions, saved>>
    /\ lastCall' = NoCall
    /\ panelKept
    /\ IF outcome = "nourl" THEN UNCHANGED storage ELSE persist

\* onNodesChange with a 'remove' change.  React Flow removes the edges of a
\* deleted node (through onEdgesChange) before the node.
onNodesChange(id) ==
    /\ UNCHANGED chatVars
    /\ \E k \in 1..Len(nodes) : nodes[k].id = id
    /\ \A k \in 1..Len(edges) : edges[k].source # id /\ edges[k].target # id
    /\ nodes' = SelectSeq(nodes, LAMBDA n : n.id # id)
    /\ lastAction' = NoArg
    /\ UNCHANGED <<edges, isLoading, expandingNodeId, pendingGen,
                   pendingExpand, pendingImages, now>>
    /\ sessionKept

\* onEdgesChange with a 'remove' change of the edge at index k
onEdgesChange(k) ==
    /\ UNCHANGED chatVars
    /\ k \in 1..Len(edges)
    /\ edges' = SelectSeq(edges, LAMBDA e : e # edges[k])
    /\ lastAction' = NoArg
    /\ UNCHANGED <<nodes, isLoading, expandingNodeId, pendingGen,
                   pendingExpand, pendingImages, now>>
    /\ sessionKept

\* onConnect: addEdge(connection, edges) appends the edge unless one with
\* the same ends exists
onConnect(source, target) ==
    /\ UNCHANGED chatVars
    /\ source # target
    /\ \A k \in 1..Len(edges) :
          ~(edges[k].source = source /\ edges[k].target = target)
    /\ Len(edges) < MaxEdges
    /\ edges' = Append(edges, [kind |-> "reactflow__edge",
                               source |-> source, target |-> target])
    /\ lastAction' = NoArg
    /\ UNCHANGED <<nodes, isLoading, expandingNodeId, pendingGen,
                   pendingExpand, pendingImages, now>>
    /\ sessionKept

\* setNodes: (nodes) => set({ nodes })
setNodes(ns) ==
    /\ UNCHANGED chatVars
    /\ nodes' = ns
    /\ lastAction' = NoArg
    /\ UNCHANGED <<edges, isLoading, expandingNodeId, pendingGen,
                   pendingExpand, pendingImages, now>>
    /\ sessionKept

\* setEdges: (edges) => set({ edges })
setEdges(es) ==
    /\ UNCHANGED chatVars
    /\ edges' = es
    /\ lastAction' = NoArg
    /\ UNCHANGED <<nodes, isLoading, expandingNodeId, pendingGen,
                   pendingExpand, pendingImages, now>>
    /\ sessionKept

createNewSession ==
    /\ UNCHANGED chatVars
    /\ nodes' = <<>>
    /\ edges' = <<>>
    /\ lastAction' = NoArg
    /\ UNCHANGED <<isLoading, expandingNodeId, pendingGen, pendingExpand,
                   pendingImages, now>>
    /\ currentSessionId' = NoSession
    /\ chatHistory' = <<Greeting>>
    /\ lastCall' = NoCall
    /\ UNCHANGED <<storedSessions, saved>>
    /\ panelSynced(TRUE)
    /\ persist

\* setChatHistory: (history) => set({ chatHistory: history })
setChatHistory(history) ==
    /\ UNCHANGED chatVars
    /\ chatHistory' = history
    /\ lastAction' = NoArg
    /\ lastCall' = NoCall
    /\ UNCHANGED <<nodes, edges, isLoading, expandingNodeId, pendingGen,
                   pendingExpand, pendingImages, now, currentSessionId,
                   storedSessions, saved>>
    /\ panelSynced(FALSE)
    /\ persist

\* saveSession(title) at clock value t; uuid is what crypto.randomUUID()
\* gives
saveSession(title, uuid, t) ==
    LET id == IF currentSessionId # NoSession THEN currentSessionId ELSE uuid
    IN  /\ UNCHANGED chatVars
        /\ t >= now
        /\ now' = t
        /\ storedSessions' =
              Put(storedSessions, id,
                  SessionData(id, title, nodes, edges, chatHistory, t))
        /\ currentSessionId' = id
        /\ saved' = Put(saved, id, [nodes |-> nodes, edges |-> edges,
                                    chatHistory |-> chatHistory])
        /\ lastAction' = NoArg
        /\ lastCall' = [op |-> "saveSession", id |-> id]
        /\ UNCHANGED <<nodes, edges, chatHistory, isLoading, expandingNodeId,
                       pendingGen, pendingExpand, pendingImages>>
        /\ panelKept
        /\ persist

\* loadSession(id)
loadSession(id) ==
    /\ UNCHANGED chatVars
    /\ IF id \in DOMAIN storedSessions
       THEN /\ currentSessionId' = storedSessions[id].id
            /\ nodes' = storedSessions[id].nodes
            /\ edges' = storedSessions[id].edges
            /\ chatHistory' = storedSessions[id].chatHistory
            /\ isLoading' = FALSE
            /\ panelSynced(TRUE)
       ELSE /\ UNCHANGED <<currentSessionId, nodes, edges, chatHistory,
                           isLoading>>
            /\ panelKept
    /\ lastAction' = NoArg
    /\ lastCall' = [op |-> "loadSession", id |-> id]
    /\ UNCHANGED <<expandingNodeId, pendingGen, pendingExpand, pendingImages,
                   now, storedSessions, saved>>
    /\ IF id \in DOMAIN storedSessions THEN persist ELSE UNCHANGED storage

\* deleteSession(id) without the call of createNewSession
deleteSessionKeepingCurrent(id) ==
    /\ UNCHANGED chatVars
    /\ storedSessions' = Without(storedSessions, id)
    /\ saved' = Without(saved, id)
    /\ UNCHANGED <<nodes, edges, currentSessionId, chatHistory>>
    /\ panelKept
    /\ lastAction' = NoArg
    /\ lastCall' = [op |-> "deleteSession", id |-> id]
    /\ UNCHANGED <<isLoading, expandingNodeId, pendingGen, pendingExpand,
                   pendingImages, now>>
    /\ persist

\* deleteSession(id); deleting the session being edited ends in
\* createNewSession
deleteSession(id) ==
    /\ UNCHANGED chatVars
    /\ storedSessions' = Without(storedSessions, id)
    /\ saved' = Without(saved, id)
    /\ IF currentSessionId = id
       THEN /\ nodes' = <<>>
            /\ edges' = <<>>
            /\ currentSessionId' = NoSession
            /\ chatHistory' = <<Greeting>>
            /\ panelSynced(TRUE)
       ELSE /\ UNCHANGED <<nodes, edges, currentSessionId, chatHistory>>
            /\ panelKept
    /\ lastAction' = NoArg
    /\ lastCall' = [op |-> "deleteSession", id |-> id]
    /\ UNCHANGED <<isLoading, expandingNodeId, pendingGen, pendingExpand,
                   pendingImages, now>>
    /\ persist

\* the page is loaded again: the store is created anew (lines 141-165, 423-429)
\* and persist merges the stored state into it; calls in flight are lost
reload ==
    /\ UNCHANGED chatVars
    /\ nodes' = rehydrated("nodes", <<>>)
    /\ edges' = rehydrated("edges", <<>>)
    /\ currentSessionId' = rehydrated("currentSessionId", NoSession)
    /\ chatHistory' = rehydrated("chatHistory", <<Greeting>>)
    /\ storedSessions' = rehydrated("storedSessions", NoSessions)
    /\ isLoading' = FALSE
    /\ expandingNodeId' = NoId
    /\ pendingGen' = 0
    /\ pendingExpand' = <<>>
    /\ pendingImages' = <<>>
    /\ lastAction' = NoArg
    /\ lastCall' = [op |-> "reload", id |-> NoSession]
    /\ UNCHANGED <<now, saved>>
    /\ messages' = chatHistory'
    /\ chatLoading' = FALSE
    /\ pendingChat' = NoRequest
    /\ timerDue' = FALSE
    /\ persist

(***************************************************************************)
(* The chat panel (ChatPanel.tsx)                                          *)
(***************************************************************************)
\* line 155: the message of the catch block
Apology == [role |-> "model", text |-> <<"S">>]
\* line 109: the text of a message sent with an image and no text
ImageQuestion == <<"W">>

\* what the user may type: a text, or nothing
UserTexts == {<<"u">>, <<>>}

\* what the await of lines 129-142 may end with.  "ok": the body of route.ts
\* lines 235-239, whose response is '' when the reply begins with a marker;
\* "error": the body { error } of a 401 or 500 (lines 16-18, 240-243), which
\* fetch resolves with like any other; "failed": fetch rejects or the body is
\* not JSON.
ChatResponses ==
    [kind : {"ok"}, response : {<<>>, <<"a">>},
     graphAction : {NoArg} \cup {a \in Actions : /\ a.type = "add_node"
                                                /\ a.parentLabel = <<>>
                                                /\ ~a.imagePrompt}]
    \cup [kind : {"error", "failed"}, response : {<<>>},
          graphAction : {NoArg}]

\* lines 104-118: sendMessage(userMessage, image) up to its await of fetch; a
\* call that does not pass the guard of line 105 returns at once
sendMessage(userMessage, image) ==
    /\ UNCHANGED chatVars
    /\ (trim(userMessage) # <<>> \/ image) /\ ~chatLoading
    /\ Len(messages) + 1 < MaxMessages
    /\ LET newUserMessage ==
               [role |-> "user",
                text |-> IF userMessage # <<>> THEN userMessage
                         ELSE ImageQuestion]
       IN  /\ messages' = Append(messages, newUserMessage)
           /\ pendingChat' = [sent |-> TRUE, switched |-> FALSE]
    /\ chatLoading' = TRUE
    /\ timerDue' = TRUE
    /\ lastAction' = NoArg
    /\ lastCall' = [op |-> "sendMessage", id |-> NoSession]
    /\ UNCHANGED storeVarsHeld

\* lines 142-158: sendMessage from the reply on, at clock value t
chatReply(data, t) ==
    /\ UNCHANGED chatVars
    /\ pendingChat.sent
    /\ messages' =
          IF data.kind = "failed" THEN Append(messages, Apology)
          ELSE IF data.response # <<>>
          THEN Append(messages, [role |-> "model", text |-> data.response])
          ELSE messages
    /\ timerDue' = (timerDue \/ messages' # messages)
    /\ chatLoading' = FALSE
    /\ pendingChat' = NoRequest
    /\ IF data.graphAction # NoArg
       THEN addNodesFromChatCall(data.graphAction, t)
       ELSE /\ t = now
            /\ lastAction' = NoArg
            /\ UNCHANGED storeVarsHeld
    /\ lastCall' = [op |-> "chatReply", id |-> NoSession, data |-> data]

\* lines 48-50: the timer fires: setChatHistory(messages).  The effect of
\* lines 32-39 then finds the two lists equal.
syncToStore ==
    /\ UNCHANGED chatVars
    /\ timerDue
    /\ timerDue' = FALSE
    /\ chatHistory' = messages
    /\ UNCHANGED <<messages, chatLoading, pendingChat>>
    /\ lastAction' = NoArg
    /\ lastCall' = NoCall
    /\ UNCHANGED <<nodes, edges, isLoading, expandingNodeId, pendingGen,
                   pendingExpand, pendingImages, now, currentSessionId,
                   storedSessions, saved>>
    /\ persist

\* Header.handleSave: the title saveSession is called with
titleOf(ns) ==
    LET roots == {k \in 1..Len(ns) : ns[k].isRoot}
    IN  IF roots = {} THEN <<"U">> ELSE ns[MinOf(roots)].label

IdsHeld == {nodes[k].id : k \in 1..Len(nodes)}

\* the lists handed to setNodes and setEdges: the list held without its last
\* element (for the nodes, when no edge ends at it)
NodeLists ==
    IF /\ nodes # <<>>
       /\ \A e \in Range(edges) : /\ e.source # nodes[Len(nodes)].id
                                  /\ e.target # nodes[Len(nodes)].id
    THEN {SubSeq(nodes, 1, Len(nodes) - 1)}
    ELSE {}

EdgeLists == IF edges # <<>> THEN {SubSeq(edges, 1, Len(edges) - 1)} ELSE {}

\* the calls the pages make while the user talks to the tutor
Next ==
    \/ generateGraphStart
    \/ \E title \in Titles : generateGraph(title)
    \/ \E id \in IdsHeld \cup {MissingId} : expandNodeStart(id)
    \/ \E c \in 1..MaxPending, children \in ExpandReplies, failed \in BOOLEAN,
          t \in 0..MaxClock :
          /\ failed => children = <<>>
          /\ expandNodeReply(c, children, failed, t)
    \/ \E action \in Actions, t \in 0..MaxClock : addNodesFromChat(action, t)
    \/ \E c \in 1..MaxPending, outcome \in {"url", "nourl", "failed"} :
          imageReply(c, outcome)
    \/ createNewSession

Init ==
    /\ StoreInit
    /\ PanelInit
    /\ chatReq = [apiKey |-> FALSE, modelCall |-> "text", reply |-> <<>>]
    /\ chatRes = Pending

Spec == Init /\ [][Next]_vars

\* the calls made while the user edits the graph by hand on the canvas
NextCanvas ==
    \/ generateGraphStart
    \/ \E title \in Titles : generateGraph(title)
    \/ \E action \in {a \in Actions : ~a.imagePrompt}, t \in 0..MaxClock :
          addNodesFromChat(action, t)
    \/ \E id \in IdsHeld : onNodesChange(id)
    \/ \E k \in 1..MaxEdges : onEdgesChange(k)
    \/ \E source \in IdsHeld, target \in IdsHeld : onConnect(source, target)
    \/ \E ns \in NodeLists : setNodes(ns)
    \/ \E es \in EdgeLists : setEdges(es)
    \/ createNewSession

SpecCanvas == Init /\ [][NextCanvas]_vars

\* the calls that grow one graph: generateGraph once, on the empty store,
\* then addNodesFromChat and expandNode
NextTree ==
    \/ nodes = <<>> /\ generateGraphStart
    \/ \E title \in Titles : nodes = <<>> /\ generateGraph(title)
    \/ \E id \in IdsHeld : expandNodeStart(id)
    \/ \E c \in 1..MaxPending, children \in ExpandReplies, failed \in BOOLEAN,
          t \in 0..MaxClock :
          /\ failed => children = <<>>
          /\ expandNodeReply(c, children, failed, t)
    \/ \E action \in Actions, t \in 0..MaxClock : addNodesFromChat(action, t)
    \/ \E c \in 1..MaxPending, outcome \in {"url", "nourl", "failed"} :
          imageReply(c, outcome)

SpecTree == Init /\ [][NextTree]_vars

\* the calls made while the user keeps sessions: the graph grows from the
\* chat, the chat panel adds a message, sessions are saved, loaded and deleted
\* and the page is loaded again
NextSessions ==
    \/ generateGraphStart
    \/ \E title \in Titles : generateGraph(title)
    \/ \E action \in {a \in Actions : ~a.imagePrompt /\ a.parentLabel = <<>>},
          t \in 0..MaxClock : addNodesFromChat(action, t)
    \/ createNewSession
    \/ /\ Len(chatHistory) <= MaxChat
       /\ setChatHistory(Append(chatHistory, UserMessage))
    \/ \E uuid \in (IF currentSessionId # NoSession THEN {currentSessionId}
                     ELSE SessionIds \ DOMAIN storedSessions),
          t \in 0..MaxClock :
          saveSession(titleOf(nodes), uuid, t)
    \/ \E id \in SessionIds : loadSession(id)
    \/ \E id \in SessionIds : deleteSession(id)
    \/ reload

SpecSessions == Init /\ [][NextSessions]_vars

\* the calls made while the user talks to the tutor and moves between the
\* session being edited and one saved session: messages are sent and
\* answered, the debounce timer fires, a graph is generated, the session is
\* saved, loaded and a new one started
NextPanel ==
    \/ \E userMessage \in UserTexts, image \in BOOLEAN :
          sendMessage(userMessage, image)
    \/ \E data \in ChatResponses :
          Len(messages) < MaxMessages /\ chatReply(data, now)
    \/ syncToStore
    \/ generateGraphStart
    \/ generateGraph(<<"b">>)
    \/ createNewSession
    \/ \E uuid \in (IF currentSessionId # NoSession THEN {currentSessionId}
                     ELSE {1} \ DOMAIN storedSessions) :
          saveSession(titleOf(nodes), uuid, now)
    \/ \E id \in DOMAIN storedSessions : loadSession(id)

SpecPanel == Init /\ [][NextPanel]_vars

(***************************************************************************)
(* The replies the hosted model is taken to give                           *)
(***************************************************************************)
FlatObject == <<"{", "\"", "k", "\"", ":", "\"", "v", "\"", "}">>
NestedObject == <<"{", "\"", "k", "\"", ":", "{", "}", "}">>
BraceInString == <<"{", "\"", "k", "\"", ":", "\"", "}", "\"", "}">>
BadObject == <<"{", "k", "}">>
StringArray == <<"[", "\"", "a", "\"", "]">>
BadArray == <<"[", "a", "]">>

ReplyPieces ==
    { <<"a">>, <<" ">>, GraphMarker, QuickMarker,
      FlatObject, NestedObject, BraceInString, BadObject,
      StringArray, BadArray }

RECURSIVE RepliesUpTo(_)
RepliesUpTo(n) ==
    IF n = 0 THEN {<<>>}
    ELSE LET shorter == RepliesUpTo(n - 1)
         IN  shorter \cup {r \o p : r \in shorter, p \in ReplyPieces}

Replies == RepliesUpTo(MaxPieces)

ChatRequests ==
    {[apiKey |-> TRUE, modelCall |-> "text", reply |-> r] : r \in Replies}
    \cup {[apiKey |-> TRUE, modelCall |-> "throws", reply |-> <<>>],
          [apiKey |-> FALSE, modelCall |-> "text", reply |-> <<>>]}

InitChat ==
    /\ chatReq \in ChatRequests
    /\ chatRes = Pending
    /\ StoreInit
    /\ PanelInit

POST ==
    /\ chatRes = Pending
    /\ chatRes' = Respond(chatReq)
    /\ UNCHANGED chatReq
    /\ UNCHANGED storeVars
    /\ UNCHANGED panelVars

NextChat == POST

SpecChat == InitChat /\ [][NextChat]_vars

(***************************************************************************)
(* Properties of the chat handler (checked under SpecChat)                 *)
(***************************************************************************)
\* the handler has answered a request whose model call returned text
Replied == chatRes # Pending /\ chatReq.apiKey /\ chatReq.modelCall = "text"

\* 0-based index of the first marker of either kind in s, Len(s) when none
FirstMarker(s) ==
    LET g == indexOf(s, GraphMarker)
        q == indexOf(s, QuickMarker)
    IN  IF g = -1 /\ q = -1 THEN Len(s)
        ELSE IF g = -1 THEN q
        ELSE IF q = -1 THEN g
        ELSE IF g < q THEN g ELSE q

\* the text after 0-based index i up to the next marker of either kind
SectionFrom(s, i) ==
    LET rest == substring(s, i, Len(s))
    IN  substring(rest, 0, FirstMarker(rest))

\* the graph-action section: what follows the first graph-action marker
ActionSection(s) ==
    SectionFrom(s, indexOf(s, GraphMarker) + Len(GraphMarker))

\* the quick-replies section: what follows the first quick-replies marker
\* (the first one after the graph-action marker when there is one)
SuggestionSection(s) ==
    LET g == indexOf(s, GraphMarker)
        from == IF g = -1 THEN 0 ELSE g + Len(GraphMarker)
        q == indexOf(substring(s, from, Len(s)), QuickMarker)
    IN  IF q = -1 THEN <<>>
        ELSE SectionFrom(s, from + q + Len(QuickMarker))

IsJsonObject(t) == JSONparse(t).ok /\ t[SkipWs(t, 1)] = "{"

\* items of a written array, from position i: string ("," string)* "]"
RECURSIVE StringItems(_, _)
StringItems(t, i) ==
    LET str == ParseString(t, i)
    IN  /\ str.ok
        /\ str.end <= Len(t)
        /\ \/ t[str.end] = "]" /\ str.end = Len(t)
           \/ t[str.end] = "," /\ StringItems(t, str.end + 1)

IsStringArray(t) ==
    LET p == JSONparse(t)
    IN  /\ p.ok
        /\ p.out[1] = "["
        /\ p.out = EmptyArray \/ StringItems(p.out, 2)

(* C1: the response text is, up to surrounding whitespace, the part of the
   reply before the first section marker of either kind (the whole reply
   when it holds no marker). *)
C1_ResponseIsTextBeforeFirstMarker ==
    Replied =>
        /\ chatRes.status = 200
        /\ trim(chatRes.response)
             = trim(substring(chatReq.reply, 0, FirstMarker(chatReq.reply)))

(* C2: a reply without the graph-action marker gives graphAction = null, a
   reply without the quick-replies marker gives quickReplies = [], and the
   handler answers normally with the message (the whole reply when it holds
   no marker at all). *)
C2_MissingMarkersDegrade ==
    Replied =>
        /\ ~includes(chatReq.reply, GraphMarker) =>
              /\ chatRes.graphAction = NoAction
              /\ chatRes.status = 200 /\ chatRes.body = "message"
        /\ ~includes(chatReq.reply, QuickMarker) =>
              /\ chatRes.quickReplies = EmptyArray
              /\ chatRes.status = 200 /\ chatRes.body = "message"
        /\ (~includes(chatReq.reply, GraphMarker)
               /\ ~includes(chatReq.reply, QuickMarker)) =>
              chatRes.response = chatReq.reply

\* a reply without the graph-action marker, holding braces and a parsed list
\* of suggestions, has been answered
C2_Witness ==
    /\ Replied
    /\ chatRes.status = 200
    /\ ~includes(chatReq.reply, GraphMarker)
    /\ matchBraces(chatReq.reply) # NoMatch
    /\ chatRes.quickReplies # EmptyArray

(* C3 as stated: whenever the text of the graph-action section, or of the
   quick-replies section, is not valid JSON, the answer is a success with
   graphAction = null, respectively quickReplies = []. *)
C3_InvalidSectionGivesNothing ==
    Replied =>
        /\ chatRes.status = 200 /\ chatRes.body = "message"
        /\ (includes(chatReq.reply, GraphMarker)
               /\ ~JSONparse(ActionSection(chatReq.reply)).ok) =>
              chatRes.graphAction = NoAction
        /\ (includes(chatReq.reply, QuickMarker)
               /\ ~JSONparse(SuggestionSection(chatReq.reply)).ok) =>
              chatRes.quickReplies = EmptyArray

\* the text of section t that the handler takes for the JSON is missing or
\* is not valid JSON
BadCandidate(cand) == cand = NoMatch \/ ~JSONparse(cand).ok

(* C3, amended: whenever the JSON text taken from the graph-action section
   (first "{" to the next "}") or from the quick-replies section (first "["
   to the last "]") is missing or not valid JSON, the answer is still a
   success carrying the message, with graphAction = null, respectively
   quickReplies = []; a reply the model returned never gives the 500. *)
C3_MalformedJsonDegrades ==
    Replied =>
        /\ chatRes.status = 200 /\ chatRes.body = "message"
        /\ (includes(chatReq.reply, GraphMarker)
               /\ BadCandidate(matchBraces(ActionSection(chatReq.reply)))) =>
              chatRes.graphAction = NoAction
        /\ (includes(chatReq.reply, QuickMarker)
               /\ BadCandidate(quickRepliesCandidate(
                                  SuggestionSection(chatReq.reply)))) =>
              chatRes.quickReplies = EmptyArray

\* a reply whose two sections both hold text that is not valid JSON has been
\* answered with a success
C3_Witness ==
    /\ Replied
    /\ chatRes.status = 200
    /\ includes(chatReq.reply, GraphMarker)
    /\ matchBraces(ActionSection(chatReq.reply)) # NoMatch
    /\ ~JSONparse(matchBraces(ActionSection(chatReq.reply))).ok
    /\ quickRepliesCandidate(SuggestionSection(chatReq.reply)) # NoMatch
    /\ ~JSONparse(quickRepliesCandidate(SuggestionSection(chatReq.reply))).ok
    /\ chatRes.graphAction = NoAction
    /\ chatRes.quickReplies = EmptyArray

(* C4: whenever the text between the graph-action marker and the next marker
   (or the end of the reply) is one well-formed JSON object, graphAction is
   that object, whatever it holds. *)
C4_WellFormedObjectIsReturned ==
    (Replied /\ includes(chatReq.reply, GraphMarker)
       /\ IsJsonObject(ActionSection(chatReq.reply))) =>
        chatRes.graphAction = JSONparse(ActionSection(chatReq.reply)).out

(* C5: whenever the reply holds the quick-replies marker and what follows its
   last occurrence is a well-formed JSON array of strings, quickReplies is
   that array: with or without a graph-action section before it, and with
   the marker repeated before the array. *)
C5_StringArrayIsReturned ==
    LET last == lastIndexOf(chatReq.reply, QuickMarker)
        tail == substring(chatReq.reply, last + Len(QuickMarker),
                          Len(chatReq.reply))
    IN  (Replied /\ last # -1 /\ IsStringArray(tail)) =>
            chatRes.quickReplies = JSONparse(tail).out

(***************************************************************************)
(* Properties of the store                                                 *)
(***************************************************************************)
\* the state an addNodesFromChat call leaves when it appended a node: the
\* node is the last of nodes, its edge the last of edges
AddedNode == lastAction.type = "add_node" /\ nodes # <<>>

\* the nodes held before that call
Before == SubSeq(nodes, 1, Len(nodes) - 1)

\* the action of that call carried no parentLabel, or one that no node held
\* before the call matches
Unresolved ==
    \/ lastAction.parentLabel = <<>>
    \/ \A k \in 1..Len(Before) :
          ~includes(toLowerCase(Before[k].label),
                    toLowerCase(lastAction.parentLabel))

NewEdge == edges[Len(edges)]

FromGenerateOrChat(n) == n.id.kind \in {"root", "node-chat"}

\* C7: node labels are unique: after any sequence of generateGraph and
\* addNodesFromChat calls no two nodes of the graph carry the same label.
C7_LabelsUnique ==
    \A i, j \in 1..Len(nodes) :
        (/\ i # j
         /\ FromGenerateOrChat(nodes[i])
         /\ FromGenerateOrChat(nodes[j])) => nodes[i].label # nodes[j].label

\* a node without its position
Data(n) == [n EXCEPT !.x = 0, !.y = 0]

\* C8: an add_node action applied to a non-empty graph appends exactly one
\* node and exactly one edge, from a node held before to the new node; every
\* node held before keeps its identifier and data, every edge held before is
\* kept, only positions may change.  An action of another type, or one
\* applied to an empty graph, leaves nodes and edges unchanged.  (A step that
\* changes the state and leaves lastAction other than NoArg is a step of
\* addNodesFromChat.)
C8_AddNodeAppendsOneNodeOneEdge ==
    [][lastAction' # NoArg =>
          IF lastAction'.type = "add_node" /\ nodes # <<>>
          THEN /\ Len(nodes') = Len(nodes) + 1
               /\ Len(edges') = Len(edges) + 1
               /\ \A k \in 1..Len(nodes) : Data(nodes'[k]) = Data(nodes[k])
               /\ \A k \in 1..Len(edges) : edges'[k] = edges[k]
               /\ edges'[Len(edges')].target = nodes'[Len(nodes')].id
               /\ \E k \in 1..Len(nodes) :
                     edges'[Len(edges')].source = nodes[k].id
          ELSE UNCHANGED <<nodes, edges>>]_vars

\* an add_node action has been applied to a graph of two nodes and one edge
C8_Witness ==
    /\ AddedNode
    /\ Len(nodes) = 3
    /\ Len(edges) = 2
    /\ NewEdge.target = nodes[3].id

\* the edges whose source and target are nodes of ns
WithoutDangling(ns, es) ==
    SelectSeq(es, LAMBDA e : \E i, j \in 1..Len(ns) :
                                e.source = ns[i].id /\ e.target = ns[j].id)

\* C9: for any node set and any edge set, edges whose source or target is
\* not a node of the set included, the layout pass returns a position for
\* every input node, and a dangling edge does not influence the result: the
\* positions are those of the layout pass over the edges that are not
\* dangling.
C9_DanglingEdgesIgnored ==
    /\ Len(getLayoutedElements(nodes, edges).nodes) = Len(nodes)
    /\ getLayoutedElements(nodes, edges).nodes
         = getLayoutedElements(nodes, WithoutDangling(nodes, edges)).nodes

\* C10: after every store operation that changes the node set or the edge
\* set, the node positions held in the store equal the result of a full
\* layout pass over the store's current nodes and edges.
C10_LayoutAfterStructuralChange ==
    [][([k \in 1..Len(nodes') |-> nodes'[k].id]
            # [k \in 1..Len(nodes) |-> nodes[k].id]
        \/ edges' # edges)
       => nodes' = getLayoutedElements(nodes', edges').nodes]_vars

(***************************************************************************)
(* Properties of the layout pass, over the nodes and edges the store holds *)
(***************************************************************************)
\* the node carries image content: imageUrl or imageLoading is set
ImageContent(n) == n.imageUrl \/ n.imageLoading

\* C11: the layout pass gives each node a bounding box that depends only on
\* whether the node carries image content, and the box of a node with image
\* content is both wider and taller than the box of a node without.
C11_ImageBoxWiderAndTaller ==
    \A i, j \in 1..Len(nodes) :
        LET bi == BoxOf(nodes, nodes[i].id)
            bj == BoxOf(nodes, nodes[j].id)
        IN  /\ (ImageContent(nodes[i]) = ImageContent(nodes[j])) => bi = bj
            /\ (ImageContent(nodes[i]) /\ ~ImageContent(nodes[j])) =>
                  /\ bi.width > bj.width
                  /\ bi.height > bj.height

\* nodes[i] and nodes[j] are children of one node
Siblings(i, j) ==
    \E e, f \in Range(edges) :
        /\ e.source = f.source
        /\ e.target = nodes[i].id
        /\ f.target = nodes[j].id

\* C12: in the laid-out graph any two distinct sibling nodes at the same rank
\* occupy horizontally disjoint bounding boxes.
C12_SiblingsDoNotOverlap ==
    LET Disjoint(laid, g) ==
            \A i, j \in 1..Len(nodes) :
                (/\ i # j
                 /\ Siblings(i, j)
                 /\ g[nodes[i].id].rank = g[nodes[j].id].rank) =>
                    \/ laid[i].x + NodeWidth <= laid[j].x
                    \/ laid[j].x + NodeWidth <= laid[i].x
    IN  Disjoint(getLayoutedElements(nodes, edges).nodes,
                 dagreLayout(nodes, edges))

\* C14: every node with no incoming edge is placed at rank 0, the top row,
\* and for every edge the target is placed at a strictly deeper rank,
\* strictly lower on screen, than its source.
C14_RanksFollowDepth ==
    LET Deeper(g) ==
            /\ \A k \in 1..Len(nodes) :
                  (\A e \in Range(edges) : e.target # nodes[k].id) =>
                      /\ g[nodes[k].id].rank = 0
                      /\ \A v \in DOMAIN g : g[nodes[k].id].y <= g[v].y
            /\ \A e \in Range(edges) :
                  /\ g[e.target].rank > g[e.source].rank
                  /\ g[e.target].y > g[e.source].y
    IN  Deeper(dagreLayout(nodes, edges))

(***************************************************************************)
(* Properties of the sessions (checked under SpecSessions)                 *)
(***************************************************************************)
\* the call that led to this state is loadSession(id) of a saved session
Loaded(id) == lastCall = [op |-> "loadSession", id |-> id] /\ id \in DOMAIN saved

\* C15: a saved session is a snapshot: loadSession(id), whatever was done to
\* the graph, the chat and the other sessions since, restores nodes, edges
\* and chat history as they were at the last saveSession made under that id.
C15_LoadRestoresLastSave ==
    \A id \in SessionIds :
        Loaded(id) =>
            /\ nodes = saved[id].nodes
            /\ edges = saved[id].edges
            /\ chatHistory = saved[id].chatHistory

\* a session with a graph and a chat of two messages has been loaded while
\* another session, saved with another graph, is stored
C15_Witness ==
    \E id, other \in SessionIds :
        /\ Loaded(id)
        /\ other \in DOMAIN saved
        /\ saved[other].nodes # saved[id].nodes
        /\ Len(nodes) = 2
        /\ Len(chatHistory) = 2

\* C16: only the map of saved sessions is durable: across a reload of the
\* application storedSessions keeps its value, while nodes, edges, chat
\* history and currentSessionId return to their initial values.
C16_OnlySessionsAreDurable ==
    [][lastCall'.op = "reload" =>
          /\ storedSessions' = storedSessions
          /\ nodes' = <<>>
          /\ edges' = <<>>
          /\ chatHistory' = <<Greeting>>
          /\ currentSessionId' = NoSession]_vars

\* the page has been loaded again: a session saved before is still stored,
\* with its graph, and the store holds no graph
C16_Witness ==
    /\ lastCall.op = "reload"
    /\ \E id \in DOMAIN storedSessions : storedSessions[id].nodes # <<>>
    /\ nodes = <<>>

(***************************************************************************)
(* Properties of the graph the store holds                                 *)
(***************************************************************************)
\* C17: in every reachable store state every edge's source and target are
\* identifiers of nodes currently in the store.
C17_EdgeEndsAreHeld ==
    \A e \in Range(edges) : e.source \in IdsHeld /\ e.target \in IdsHeld

\* C18: when the action's parentLabel is exactly the label of an existing
\* node, addNodesFromChat attaches the new node to a node bearing that label.
C18_ExactLabelIsTheParent ==
    (AddedNode /\ \E k \in 1..Len(Before) :
                     Before[k].label = lastAction.parentLabel) =>
        \E k \in 1..Len(Before) :
            /\ Before[k].label = lastAction.parentLabel
            /\ NewEdge.source = Before[k].id

\* C19: no two nodes share an id and no two edges share an id (the id of an
\* edge is written from its kind, its source and its target).
C19_IdsUnique ==
    /\ \A i, j \in 1..Len(nodes) : i # j => nodes[i].id # nodes[j].id
    /\ \A i, j \in 1..Len(edges) : i # j => edges[i] # edges[j]

\* the nodes reached from the nodes at the indices in S along the edges
RECURSIVE ReachedFrom(_)
ReachedFrom(S) ==
    LET more == {k \in 1..Len(nodes) :
                   \E j \in S, e \in Range(edges) :
                       e.source = nodes[j].id /\ e.target = nodes[k].id}
    IN  IF more \subseteq S THEN S ELSE ReachedFrom(S \cup more)

\* the number of edges that end at nodes[k]
Incoming(k) ==
    Cardinality({j \in 1..Len(edges) : edges[j].target = nodes[k].id})

\* C20: once generateGraph has made the graph, addNodesFromChat and
\* expandNode keep it a tree: exactly one node flagged isRoot, without an
\* incoming edge, every other node with exactly one incoming edge, every
\* node reached from the root.
C20_GraphIsATree ==
    nodes # <<>> =>
        \E r \in 1..Len(nodes) :
            /\ \A k \in 1..Len(nodes) : nodes[k].isRoot <=> k = r
            /\ Incoming(r) = 0
            /\ \A k \in 1..Len(nodes) \ {r} : Incoming(k) = 1
            /\ ReachedFrom({r}) = 1..Len(nodes)

(***************************************************************************)
(* Properties of the calls in flight (checked under Spec)                  *)
(***************************************************************************)
\* C22: a node added with an imagePrompt shows its image as loading only
\* while its image request is awaited: once the request has completed, with
\* an image URL, with a body without one or with a failure, imageLoading is
\* false.
C22_LoadingEndsWithRequest ==
    \A k \in 1..Len(nodes) :
        nodes[k].imageLoading => nodes[k].id \in Range(pendingImages)

\* C23: expandingNodeId is the parent of an expandNode call awaiting its
\* reply whenever there is such a call, and null whenever there is none.
C23_ExpandingTracksPendingCalls ==
    IF pendingExpand = <<>>
    THEN expandingNodeId = NoId
    ELSE expandingNodeId \in Range(pendingExpand)

(***************************************************************************)
(* Properties of saving and deleting sessions (checked under SpecSessions) *)
(***************************************************************************)
\* the number of stored sessions
StoredCount(sessions) == Cardinality(DOMAIN sessions)

\* C26: saveSession writes the current nodes, edges and chat history under
\* currentSessionId when one is set, replacing that entry and leaving every
\* other entry and the number of entries unchanged, and under a fresh id
\* otherwise; afterwards currentSessionId is the id of the entry written, so
\* a save that follows a save adds no entry.
C26_SaveWritesUnderCurrentId ==
    [][lastCall'.op = "saveSession" =>
          /\ currentSessionId' \in DOMAIN storedSessions'
          /\ storedSessions'[currentSessionId'].nodes = nodes
          /\ storedSessions'[currentSessionId'].edges = edges
          /\ storedSessions'[currentSessionId'].chatHistory = chatHistory
          /\ \A other \in DOMAIN storedSessions \ {currentSessionId'} :
                /\ other \in DOMAIN storedSessions'
                /\ storedSessions'[other] = storedSessions[other]
          /\ IF currentSessionId # NoSession
             THEN /\ currentSessionId' = currentSessionId
                  /\ StoredCount(storedSessions') = StoredCount(storedSessions)
             ELSE /\ currentSessionId' \notin DOMAIN storedSessions
                  /\ StoredCount(storedSessions')
                        = StoredCount(storedSessions) + 1
          /\ lastCall.op = "saveSession" =>
                DOMAIN storedSessions' = DOMAIN storedSessions]_vars

\* a session with a graph has been saved under the current id while another
\* session, holding another graph, is stored
C26_Witness ==
    /\ lastCall.op = "saveSession"
    /\ currentSessionId = lastCall.id
    /\ currentSessionId \in DOMAIN storedSessions
    /\ nodes # <<>>
    /\ \E other \in DOMAIN storedSessions :
          /\ other # currentSessionId
          /\ storedSessions[other].nodes # nodes

\* C27: deleteSession(id) removes exactly the entry id and leaves the other
\* entries unchanged; when id is the current session the working state
\* becomes an empty new session, otherwise nodes, edges, chat history and
\* currentSessionId are unchanged.  loadSession of an id that is not stored
\* leaves the whole state unchanged.
C27_DeleteRemovesOneEntry ==
    [][/\ lastCall'.op = "deleteSession" =>
             /\ DOMAIN storedSessions' = DOMAIN storedSessions \ {lastCall'.id}
             /\ \A other \in DOMAIN storedSessions' :
                   storedSessions'[other] = storedSessions[other]
             /\ IF currentSessionId = lastCall'.id
                THEN /\ nodes' = <<>>
                     /\ edges' = <<>>
                     /\ currentSessionId' = NoSession
                     /\ chatHistory' = <<Greeting>>
                ELSE UNCHANGED <<nodes, edges, chatHistory, currentSessionId>>
       /\ (/\ lastCall'.op = "loadSession"
           /\ lastCall'.id \notin DOMAIN storedSessions) =>
             UNCHANGED <<nodes, edges, isLoading, expandingNodeId,
                         currentSessionId, chatHistory, storedSessions,
                         storage>>]_vars

\* a stored session other than the one being edited has been deleted: the
\* session being edited is still stored and its graph is still held
C27_Witness ==
    /\ lastCall.op = "deleteSession"
    /\ lastCall.id \in SessionIds \ DOMAIN storedSessions
    /\ currentSessionId \in DOMAIN storedSessions
    /\ nodes # <<>>
    /\ Len(chatHistory) = 2

\* C28: in every reachable store state currentSessionId is null or the key
\* of an entry of storedSessions, and every entry of storedSessions is stored
\* under the key equal to its id field.
C28_CurrentSessionIsStored ==
    /\ currentSessionId \in DOMAIN storedSessions \cup {NoSession}
    /\ \A key \in DOMAIN storedSessions : storedSessions[key].id = key

\* the session being edited has been deleted while another session is
\* stored: no session is current
C28_Witness ==
    /\ lastCall.op = "deleteSession"
    /\ currentSessionId = NoSession
    /\ nodes = <<>>
    /\ storedSessions # NoSessions

(***************************************************************************)
(* Properties of the chat panel (checked under SpecPanel)                  *)
(***************************************************************************)
\* C21: a chat reply is applied only to the session it was requested from:
\* when loadSession, createNewSession or generateGraph has run while the
\* request was in flight, the reply adds nothing to the graph and nothing to
\* the transcript of the session that is now the current one.
C21_ReplyStaysWithItsSession ==
    [][(lastCall'.op = "chatReply" /\ pendingChat.switched) =>
          /\ nodes' = nodes
          /\ edges' = edges
          /\ messages' = messages]_vars

\* C24: every sendMessage call that passes its guard ends with the loading
\* flag false and with exactly one model message appended after the user's
\* message: the reply text when the request succeeds, the apology when it
\* fails, whatever the chat endpoint returns.
C24_EveryCallEndsWithOneReply ==
    [][lastCall'.op = "chatReply" =>
          /\ chatLoading' = FALSE
          /\ messages # <<>>
          /\ messages[Len(messages)].role = "user"
          /\ \E reply \in {[role |-> "model", text |-> lastCall'.data.response],
                           Apology} :
                /\ messages' = Append(messages, reply)
                /\ reply = Apology <=> lastCall'.data.kind # "ok"]_vars

\* C25: after a change of the store's chat history the chat panel displays
\* the store's chat history, whatever it displayed before and whatever was
\* loaded.
C25_PanelFollowsTheStore ==
    [][chatHistory' # chatHistory => messages' = chatHistory']_vars

====
